---- MODULE Spec2Model ----
(***************************************************************************)
(* Turn-processing engine of spec_builder: the fact extractor              *)
(* (llm/fact_extractor.py) and the turn orchestrator                       *)
(* (llm/conversation_flow.py), run against a generator whose outputs are   *)
(* chosen nondeterministically.                                            *)
(*                                                                         *)
(* Text is a sequence of tokens.  A token is one character (the backtick  *)
(* BT, the double quote DQ, "{", "}", "[", "]", ",", ":", the blank " ")   *)
(* or an indivisible run of characters that contains none of those ("w",   *)
(* "json", "facts", "1", ...).  Fence stripping, brace slicing and JSON    *)
(* decoding are computed on the tokens as the code computes them on        *)
(* characters.                                                             *)
(***************************************************************************)
EXTENDS Integers, Sequences, FiniteSets, TLC

\* ------------------------------------------------------------------ bounds
MaxComment == 1      \* longest free commentary around a generator output
MaxListed == 2       \* longest facts array enumerated element by element
MaxProposed == 2     \* longest list of proposed changes enumerated by kind

\* ------------------------------------------------------- program constants
MaxFacts == 12       \* "max 12 items" in the extractor's request

\* --------------------------------------------------------------- sequences
\* s[a:b] of Python for 0-based a, b within 0..len(s): empty when b <= a
PySlice(s, a, b) == IF b <= a THEN <<>> ELSE SubSeq(s, a + 1, b)

RECURSIVE SeqsUpTo(_, _)
SeqsUpTo(A, n) ==
    IF n = 0 THEN {<<>>}
    ELSE LET shorter == SeqsUpTo(A, n - 1)
         IN  shorter \cup {Append(s, a) : s \in shorter, a \in A}

\* ------------------------------------------------------------------ tokens
QUOTE == "DQ"      \* the double quote character
TICK == "BT"       \* the backtick character
BLANK == " "
FenceTags == {"json", "JSON"}
Digits == {"1", "2"}

IsWs(t) == t = BLANK

\* --------------------------------------------------- fact_extractor._FENCE_RE
\* 1-based position p starts three consecutive backticks
TickRunAt(s, p) ==
    /\ p >= 1
    /\ p + 2 <= Len(s)
    /\ s[p] = TICK /\ s[p + 1] = TICK /\ s[p + 2] = TICK

\* the positions >= from that start a run of three backticks
TickRunsFrom(s, from) == {p \in from..Len(s) : TickRunAt(s, p)}

Min(S) == CHOOSE x \in S : \A y \in S : x <= y
Max(S) == CHOOSE x \in S : \A y \in S : x >= y

RECURSIVE SkipWs(_, _)
SkipWs(s, p) == IF p <= Len(s) /\ IsWs(s[p]) THEN SkipWs(s, p + 1) ELSE p

\* re.search: the leftmost opening run that is followed by a closing run
FenceOpens(s) == {p \in TickRunsFrom(s, 1) : TickRunsFrom(s, p + 3) # {}}

\* group(1) of the leftmost match: after the opening run, an optional tag
\* (any case), then blanks, then lazily up to the next run of backticks
FenceGroup(s) ==
    LET open == Min(FenceOpens(s))
        afterTag == IF open + 3 <= Len(s) /\ s[open + 3] \in FenceTags
                    THEN open + 4 ELSE open + 3
        start == SkipWs(s, afterTag)
        close == Min(TickRunsFrom(s, start))
    IN  PySlice(s, start - 1, close - 1)

RECURSIVE Strip(_)
Strip(s) ==
    IF s = <<>> THEN s
    ELSE IF IsWs(Head(s)) THEN Strip(Tail(s))
    ELSE IF IsWs(s[Len(s)]) THEN Strip(SubSeq(s, 1, Len(s) - 1))
    ELSE s

\* ----------------------------------------------- fact_extractor._strip_fences
strip_fences(s) == IF FenceOpens(s) # {} THEN Strip(FenceGroup(s)) ELSE s

\* --------------------------------------- fact_extractor._extract_json_payload
extract_json_payload(s) ==
    LET s2 == strip_fences(s)
        opens == {p \in 1..Len(s2) : s2[p] = "{"}
        closes == {p \in 1..Len(s2) : s2[p] = "}"}
    IN  IF opens = {} \/ closes = {} THEN s2
        ELSE PySlice(s2, Min(opens) - 1, Max(closes))

\* ------------------------------------------------------------- JSON values
\* A decoded value is a pair <<type, content>>: a number and its token, a
\* string and its tokens, an array and its elements, an object and its
\* <<key, value>> members in insertion order (keys are token sequences).
JNum(t) == <<"num", t>>
JStr(ts) == <<"str", ts>>
JArr(vs) == <<"arr", vs>>
JObj(ms) == <<"obj", ms>>
JNull == <<"null", <<>>>>
JTrue == <<"bool", "true">>
JFalse == <<"bool", "false">>

\* a field the request does not carry, a variable not yet assigned
Absent == <<"absent", <<>>>>

IsDict(v) == v[1] = "obj"
IsList(v) == v[1] = "arr"
IsStr(v) == v[1] = "str"
IsNum(v) == v[1] = "num"

\* bool(v)
Truthy(v) ==
    CASE v = JNull -> FALSE
      [] v[1] = "bool" -> v = JTrue
      [] v[1] = "num" -> v[2] # "0"
      [] OTHER -> v[2] # <<>>
Items(v) == v[2]

HasKey(d, k) == \E i \in 1..Len(d[2]) : d[2][i][1] = k
Lookup(d, k) == d[2][CHOOSE i \in 1..Len(d[2]) : d[2][i][1] = k][2]

\* dict.get(k, default)
DictGet(d, k, default) == IF HasKey(d, k) THEN Lookup(d, k) ELSE default

\* d[k] = v while decoding: a repeated key keeps its place, the last value wins
DictPut(ms, k, v) ==
    IF \E i \in 1..Len(ms) : ms[i][1] = k
    THEN [i \in 1..Len(ms) |-> IF ms[i][1] = k THEN <<k, v>> ELSE ms[i]]
    ELSE Append(ms, <<k, v>>)

\* ------------------------------------------------------- json.loads (decoder)
NoParse == [ok |-> FALSE, v |-> <<>>, n |-> 0]
Parsed(v, n) == [ok |-> TRUE, v |-> v, n |-> n]

TokAt(s, p, t) == p <= Len(s) /\ s[p] = t

\* a string literal opening at p: up to the next double quote
ParseString(s, p) ==
    LET closes == {q \in (p + 1)..Len(s) : s[q] = QUOTE}
    IN  IF closes = {} THEN NoParse
        ELSE Parsed(JStr(PySlice(s, p, Min(closes) - 1)), Min(closes) + 1)

RECURSIVE ParseValue(_, _)
RECURSIVE ParseElems(_, _, _)
RECURSIVE ParseMembers(_, _, _)

\* the JSON value that starts exactly at p
ParseValue(s, p) ==
    IF p > Len(s) THEN NoParse
    ELSE IF s[p] = QUOTE THEN ParseString(s, p)
    ELSE IF s[p] \in Digits THEN Parsed(JNum(s[p]), p + 1)
    ELSE IF s[p] = "["
         THEN LET q == SkipWs(s, p + 1)
              IN  IF TokAt(s, q, "]") THEN Parsed(JArr(<<>>), q + 1)
                  ELSE ParseElems(s, q, <<>>)
    ELSE IF s[p] = "{"
         THEN LET q == SkipWs(s, p + 1)
              IN  IF TokAt(s, q, "}") THEN Parsed(JObj(<<>>), q + 1)
                  ELSE ParseMembers(s, q, <<>>)
    ELSE NoParse

\* the rest of an array: a value at p, then "," and more, or "]"
ParseElems(s, p, acc) ==
    LET r == ParseValue(s, p)
        q == SkipWs(s, r.n)
    IN  IF ~r.ok THEN NoParse
        ELSE IF TokAt(s, q, ",") THEN ParseElems(s, SkipWs(s, q + 1), Append(acc, r.v))
        ELSE IF TokAt(s, q, "]") THEN Parsed(JArr(Append(acc, r.v)), q + 1)
        ELSE NoParse

\* the rest of an object: a string key at p, ":", a value, then "," or "}"
ParseMembers(s, p, acc) ==
    LET k == IF TokAt(s, p, QUOTE) THEN ParseString(s, p) ELSE NoParse
        c == SkipWs(s, k.n)
        r == IF k.ok /\ TokAt(s, c, ":") THEN ParseValue(s, SkipWs(s, c + 1)) ELSE NoParse
        q == SkipWs(s, r.n)
    IN  IF ~r.ok THEN NoParse
        ELSE IF TokAt(s, q, ",")
             THEN ParseMembers(s, SkipWs(s, q + 1), DictPut(acc, k.v[2], r.v))
        ELSE IF TokAt(s, q, "}") THEN Parsed(JObj(DictPut(acc, k.v[2], r.v)), q + 1)
        ELSE NoParse

\* json.loads(s): one value with blanks around it and nothing else; ok is
\* FALSE where json.loads raises
json_loads(s) ==
    LET r == ParseValue(s, SkipWs(s, 1))
    IN  IF r.ok /\ SkipWs(s, r.n) > Len(s) THEN [ok |-> TRUE, v |-> r.v]
        ELSE [ok |-> FALSE, v |-> <<>>]

\* ------------------------------------------------------- generator outputs
\* What a generator call yields: a string (kind "str"), a value that is not
\* a string (kind "none": None), or an exception (kind "raise").  A string is
\* commentary `pre`, then `body` bare or inside a fenced block, then
\* commentary `post`.
Q(w) == <<QUOTE, w, QUOTE>>

RECURSIVE Join(_)
Join(parts) ==
    IF parts = <<>> THEN <<>>
    ELSE IF Len(parts) = 1 THEN parts[1]
    ELSE parts[1] \o <<",">> \o Join(Tail(parts))

\* the text {"facts":[e1,e2,...]}
FactsText(elems) == <<"{">> \o Q("facts") \o <<":", "[">> \o Join(elems) \o <<"]", "}">>

Ticks3 == <<TICK, TICK, TICK>>

\* texts that are a JSON object whose "facts" is an array
ListedFacts == {FactsText(es) : es \in SeqsUpTo({<<"1">>, <<"2">>}, MaxListed)}
GoodBodies ==
    ListedFacts \cup
    { FactsText(<< <<"{">> \o Q("text") \o <<":">> \o Q("ok") \o <<"}">> >>),     \* {"text":"ok"}
      FactsText(<< <<QUOTE>> \o Ticks3 \o <<"w">> \o Ticks3 \o <<QUOTE>> >>),  \* a string quoting a fenced word
      FactsText(<< <<QUOTE>> \o Ticks3 \o <<QUOTE>> >>),                       \* a string quoting three backticks
      FactsText([i \in 1..MaxFacts |-> <<"1">>]),
      FactsText([i \in 1..(MaxFacts + 1) |-> <<"1">>]),
      <<"{">> \o Q("x") \o <<":", "1", ",">> \o Q("facts") \o <<":", "[", "2", "]", "}">> }

\* texts that are not: other JSON values, and texts json.loads rejects
OtherJson ==
    { <<"{">> \o Q("x") \o <<":", "1", "}">>,          \* an object without "facts"
      <<"{">> \o Q("facts") \o <<":", "1", "}">>,      \* "facts" is not an array
      <<"[", "1", "]">>,                               \* not an object
      <<"1">> }
NotJson ==
    { <<"{", "facts", ":", "[", "]", "}">>,            \* unquoted key
      <<"{">> \o Q("facts") \o <<":", "[", "1">>,      \* truncated
      <<"w">>,
      <<>> }
Bodies == GoodBodies \cup OtherJson \cup NotJson

Commentary == SeqsUpTo({"w", "}", TICK}, MaxComment) \cup {Ticks3}
FenceStyles == {"none", "plain", "json", "JSON"}

Fenced(style, body) ==
    CASE style = "none" -> body
      [] style = "plain" -> Ticks3 \o body \o Ticks3
      [] OTHER -> Ticks3 \o <<style, BLANK>> \o body \o <<BLANK>> \o Ticks3

Str(pre, style, body, post) ==
    [kind |-> "str", pre |-> pre, style |-> style, body |-> body, post |-> post]
NoneOut == [kind |-> "none", pre |-> <<>>, style |-> "none", body |-> <<>>, post |-> <<>>]
RaiseOut == [kind |-> "raise", pre |-> <<>>, style |-> "none", body |-> <<>>, post |-> <<>>]
NoOut == [kind |-> "unset", pre |-> <<>>, style |-> "none", body |-> <<>>, post |-> <<>>]

\* the characters of a string output
Text(o) == o.pre \o Fenced(o.style, o.body) \o o.post

\* the outputs a primary structured call is run against, and those of a
\* repair call
PrimaryOutputs ==
    {Str(pre, st, b, post) : pre \in Commentary, st \in FenceStyles,
                             b \in Bodies, post \in Commentary}
        \cup {NoneOut, RaiseOut}
RepairBodies ==
    (GoodBodies \ ListedFacts)
        \cup {FactsText(<<>>), FactsText(<<<<"2">>, <<"1">>>>)}
        \cup OtherJson \cup NotJson
RepairOutputs ==
    {Str(<<>>, st, b, <<>>) : st \in {"none", "json"}, b \in RepairBodies}
        \cup {NoneOut, RaiseOut}

\* ------------------------------------------------------------------- state
VARIABLES
    prog,        \* the entry point that runs: "fact_extractor" or "conversation_flow"
    generator,   \* what get_llm_response_from_context is bound to: a "mock" that
                 \* may raise, or the "shipped" wrapper of llm_interface.py
    calls,       \* the generator requests issued so far, in order
    ef_pc,       \* extract_facts: "primary", "repair", "returned", "raised"
    raw,         \* extract_facts: output of the first pass
    repaired,    \* extract_facts: output of the repair attempt
    facts,       \* extract_facts: the list it returns
    importable,  \* conversation_flow: whether llm_interface can be imported
    req,         \* conversation_flow: the turn request read from stdin
    pc,          \* conversation_flow: the stage main() is at
    reply,       \* conversation_flow: main's variables, Absent until assigned
    facts_raw,
    facts_repair,
    facts_json,
    planner_raw,
    planner,
    prd_draft,
    stdout,      \* conversation_flow: the objects printed to stdout, in order
    heard,       \* what the generator handed back to the calls so far, in order
    earlier,     \* the run processed before this one in the same deployment
    ct,          \* code_transform: main's variables
    li           \* llm_interface: one call of get_llm_response_from_context

ef_vars == <<ef_pc, raw, repaired, facts>>
turn_vars == <<importable, req, pc, reply, facts_raw, facts_repair, facts_json,
               planner_raw, planner, prd_draft, stdout>>

\* a generator request: the pipeline stage it serves, its temperature,
\* whether it asks for response_format json_object, and the earlier output
\* its messages quote (NoOut when they quote none)
Request(stage, temperature, json_mode, quoted) ==
    [stage |-> stage, temperature |-> temperature, json_mode |-> json_mode,
     quoted |-> quoted]

\* a request with the model it names and the values its messages are built
\* from, in the order they are interpolated
Message(r, model, content) ==
    [stage |-> r.stage, temperature |-> r.temperature, json_mode |-> r.json_mode,
     quoted |-> r.quoted, model |-> model, content |-> content]

\* the generator of a run that follows an earlier one is scripted with the
\* outputs of the earlier run, as long as it has some left; otherwise a call
\* of a stage may yield any of the outputs S of that stage
Generated(S) ==
    IF earlier.on /\ Len(heard) < Len(earlier.heard)
    THEN {earlier.heard[Len(heard) + 1]}
    ELSE S

FACTS == <<"facts">>

\* lines 107-109 where a decoded top-level array is taken for the facts
PayloadFacts_lenient(o) ==
    LET parsed == IF o.kind = "str" THEN json_loads(extract_json_payload(Text(o)))
                  ELSE [ok |-> FALSE, v |-> <<>>]
    IN  IF parsed.ok /\ IsList(parsed.v) THEN [ok |-> TRUE, facts |-> Items(parsed.v)]
        ELSE IF parsed.ok /\ IsDict(parsed.v)
                /\ IsList(DictGet(parsed.v, FACTS, JArr(<<>>)))
                /\ HasKey(parsed.v, FACTS)
        THEN [ok |-> TRUE, facts |-> Items(Lookup(parsed.v, FACTS))]
        ELSE [ok |-> FALSE, facts |-> <<>>]

\* lines 107-113 with every first output sent to the repair
PayloadFacts_reject(o) == [ok |-> FALSE, facts |-> <<>>]

\* ------------------------------------- fact_extractor.extract_facts, one pass
\* json.loads(_extract_json_payload(o)) and the shape test, as lines 107-109
\* and 129-131 run them: ok is FALSE when the try block raises (a value that
\* is not a string, a text json.loads rejects, an object without "facts") or
\* the test fails
PayloadFacts(o) ==
    LET parsed == IF o.kind = "str" THEN json_loads(extract_json_payload(Text(o)))
                  ELSE [ok |-> FALSE, v |-> <<>>]
    IN  IF parsed.ok /\ IsDict(parsed.v)
           /\ IsList(DictGet(parsed.v, FACTS, JArr(<<>>)))
           /\ HasKey(parsed.v, FACTS)
        THEN [ok |-> TRUE, facts |-> Items(Lookup(parsed.v, FACTS))]
        ELSE [ok |-> FALSE, facts |-> <<>>]

\* lines 128-137 turned into a loop: an invalid repair is repaired again
EF_AfterRepair_retry(valid) == IF valid THEN "returned" ELSE "repair"

\* lines 128-137: after the repair attempt the function returns, whether or
\* not the repaired output was valid
EF_AfterRepair(valid) == "returned"

\* lines 97-113: the first pass; a valid output is returned at once
EF_Primary ==
    /\ prog = "fact_extractor"
    /\ ef_pc = "primary"
    /\ \E o \in Generated(PrimaryOutputs) :
          /\ calls' = Append(calls, Request("facts", "0.1", TRUE, NoOut))
          /\ heard' = Append(heard, o)
          /\ raw' = o
          /\ IF o.kind = "raise"
             THEN ef_pc' = "raised" /\ facts' = facts
             ELSE IF PayloadFacts(o).ok
                  THEN ef_pc' = "returned" /\ facts' = PayloadFacts(o).facts
                  ELSE ef_pc' = "repair" /\ facts' = <<>>
    /\ UNCHANGED <<prog, generator, earlier, ct, li, repaired, turn_vars>>

\* lines 115-137: the repair attempt; its result, or [] when it fails too
EF_Repair ==
    /\ prog = "fact_extractor"
    /\ ef_pc = "repair"
    /\ \E o \in Generated(RepairOutputs) :
          /\ calls' = Append(calls, Request("facts_repair", "0.0", TRUE, NoOut))
          /\ heard' = Append(heard, o)
          /\ repaired' = o
          /\ IF o.kind = "raise"
             THEN ef_pc' = "raised" /\ facts' = facts
             ELSE /\ ef_pc' = EF_AfterRepair(PayloadFacts(o).ok)
                  /\ facts' = IF PayloadFacts(o).ok THEN PayloadFacts(o).facts ELSE <<>>
    /\ UNCHANGED <<prog, generator, earlier, ct, li, raw, turn_vars>>

\* ------------------------------------------------ conversation_flow: request
\* The turn request: stdin is "undecodable" (json.loads raises), "nondict"
\* (decodes to a value without .get) or "dict"; each field is Absent or the
\* decoded value the request carries.
Field(v, default) == IF v = Absent THEN default ELSE v

SECTION == <<"sectionIndex">>
FIELD == <<"fieldIndex">>
NEXTFOCUS == <<"nextFocus">>

Structures ==
    { Absent,
      JArr(<<>>),                                                       \* not an object
      JObj(<<>>),                                                       \* no nextFocus
      JObj(<< <<NEXTFOCUS, JObj(<< <<SECTION, JNum("1")>>, <<FIELD, JNum("2")>> >>)>> >>),
      JObj(<< <<NEXTFOCUS, JObj(<< <<SECTION, JNum("1")>> >>)>> >>),    \* no fieldIndex
      JObj(<< <<NEXTFOCUS, JStr(<<"w">>)>> >>) }                        \* nextFocus not an object

FOCUSSTACK == <<"focusStack">>

\* structures that carry a focus stack: one frame, two frames (the second
\* pushed last and without turnsLeft), and a frame that is no object
FocusStructures ==
    LET first == JObj(<< <<<<"type">>, JStr(<<"t1">>)>>, <<<<"topic">>, JStr(<<"a">>)>>,
                         <<<<"turnsLeft">>, JNum("1")>> >>)
        last == JObj(<< <<<<"type">>, JStr(<<"t2">>)>>, <<<<"topic">>, JStr(<<"b">>)>> >>)
    IN  { JObj(<< <<FOCUSSTACK, JArr(<<first>>)>> >>),
          JObj(<< <<FOCUSSTACK, JArr(<<first, last>>)>> >>),
          JObj(<< <<FOCUSSTACK, JArr(<<JNum("1")>>)>> >>) }

\* the request as read from stdin; prompt, conversation and llm are given here
TurnRequest(stdin, prdDraft, shouldDraft, structure, temps) ==
    [stdin |-> stdin, prdDraft |-> prdDraft, shouldDraft |-> shouldDraft,
     structure |-> structure, temps |-> temps,
     prompt |-> JStr(<<"p">>),
     conversation |-> JArr(<< JObj(<< <<<<"role">>, JStr(<<"user">>)>>,
                                      <<<<"content">>, JStr(<<"p">>)>> >>) >>),
     llm |-> JStr(<<"gpt-4o">>)]

REPLY == <<"reply">>
DRAFT == <<"draft">>
CustomTemps == JObj(<< <<REPLY, JNum("0.3")>>, <<DRAFT, JNum("0.5")>> >>)
ReplyOnlyTemps == JObj(<< <<REPLY, JNum("0.3")>> >>)
BadTemps == JObj(<< <<REPLY, JStr(<<"w">>)>> >>)

\* a request with every field of the interface but temps, and the requests
\* that lack one of prompt, conversation, llm, or every field: {}
CompleteRequest ==
    TurnRequest("dict", JStr(<<"D">>), JFalse,
                JObj(<< <<NEXTFOCUS, JObj(<< <<SECTION, JNum("1")>>, <<FIELD, JNum("2")>> >>)>> >>),
                Absent)
EmptyRequest ==
    [TurnRequest("dict", Absent, Absent, Absent, Absent)
        EXCEPT !.prompt = Absent, !.conversation = Absent, !.llm = Absent]
LackingRequests ==
    { [CompleteRequest EXCEPT !.prompt = Absent],
      [CompleteRequest EXCEPT !.conversation = Absent],
      [CompleteRequest EXCEPT !.llm = Absent],
      EmptyRequest }

Requests ==
    { TurnRequest("dict", d, sd, st, Absent) :
          d \in {Absent, JStr(<<"D">>)}, sd \in {Absent, JFalse, JTrue}, st \in Structures }
    \cup { TurnRequest("dict", JStr(<<"D">>), JTrue, Absent, tp) :
          tp \in {CustomTemps, JObj(<< <<DRAFT, JStr(<<"0.5">>)>> >>), ReplyOnlyTemps, BadTemps, JArr(<<>>)} }
    \cup LackingRequests
    \cup { TurnRequest(sk, Absent, Absent, Absent, Absent) : sk \in {"undecodable", "nondict"} }

\* requests whose structure carries a focus stack
FocusRequests ==
    { TurnRequest("dict", JStr(<<"D">>), sd, st, Absent) :
          sd \in {JFalse, JTrue}, st \in FocusStructures }

\* float(v): a number, or a string that spells one; ok is FALSE where it raises
FloatOf(v) ==
    IF IsNum(v) THEN [ok |-> TRUE, x |-> v[2]]
    ELSE IF IsStr(v) /\ Len(v[2]) = 1 /\ v[2][1] \in {"0.3", "0.5"}
         THEN [ok |-> TRUE, x |-> v[2][1]]
    ELSE [ok |-> FALSE, x |-> "nan"]

\* ---------------------------------------- conversation_flow: generator outputs
TurnBodies ==
    ListedFacts \cup
    { FactsText([i \in 1..(MaxFacts + 1) |-> <<"1">>]),
      <<"{">> \o Q("x") \o <<":", "1", "}">>,
      <<"{">> \o Q("facts") \o <<":", "1", "}">>,
      <<"[", "1", "]">>,
      <<"w">> }

ReplyOutputs == {Str(<<>>, "none", <<"w">>, <<>>), Str(<<>>, "none", <<>>, <<>>), RaiseOut}

TurnFactsOutputs ==
    {Str(<<>>, st, b, <<>>) : st \in {"none", "json"}, b \in TurnBodies}
        \cup {NoneOut, RaiseOut}

TurnRepairOutputs ==
    { Str(<<>>, "none", FactsText(<<<<"2">>, <<"1">>>>), <<>>),
      Str(<<>>, "none", FactsText([i \in 1..(MaxFacts + 1) |-> <<"2">>]), <<>>),
      Str(<<>>, "json", FactsText(<<<<"2">>>>), <<>>),
      Str(<<>>, "none", <<"{">> \o Q("x") \o <<":", "1", "}">>, <<>>),
      Str(<<>>, "none", <<"w">>, <<>>),
      RaiseOut }

\* the text {"action":"<a>","confidence":1,"targets":[],"facts":[]}
PlanText(a) ==
    <<"{">> \o Q("action") \o <<":">> \o Q(a) \o <<",">> \o Q("confidence") \o <<":", "1", ",">>
        \o Q("targets") \o <<":", "[", "]", ",">> \o Q("facts") \o <<":", "[", "]", "}">>

PlannerOutputs ==
    { Str(<<>>, "none", PlanText("update_prd"), <<>>),
      Str(<<>>, "none", PlanText("none"), <<>>),
      Str(<<>>, "none", PlanText("frobnicate"), <<>>),                 \* outside the vocabulary
      Str(<<>>, "none", <<"{">> \o Q("action") \o <<":">> \o Q("gather") \o <<"}">>, <<>>),
      Str(<<>>, "none", <<"[", "1", "]">>, <<>>),                      \* not an object
      Str(<<>>, "json", PlanText("summarize"), <<>>),                  \* fenced
      Str(<<>>, "none", <<"w">>, <<>>),
      RaiseOut }

DraftOutputs == {Str(<<>>, "none", <<"w">>, <<>>), Str(<<>>, "none", <<>>, <<>>), RaiseOut}

\* ------------------------- llm_interface.get_llm_response_from_context
\* line 70: the text returned when the third attempt raises too
Diagnostic ==
    <<"An", BLANK, "error", BLANK, "occurred", BLANK, "while", BLANK, "calling", BLANK,
      "the", BLANK, "OpenAI", BLANK, "API", BLANK, "w">>
\* line 70 with the third exception raised again instead of reported
DiagnosticOut_reraise == RaiseOut
DiagnosticOut == Str(<<>>, "none", Diagnostic, <<>>)

\* lines 50-70: `run` holds the outcomes of the API attempts, in order; the
\* first attempt that does not raise gives the result, and when all three
\* raise the diagnostic text is returned: the wrapper itself never raises
\* line 41: the output text of the response, or str(resp) when the response
\* has none or an empty one
Call(o) ==
    IF o.kind = "str" /\ Text(o) # <<>> THEN o
    ELSE Str(<<>>, "none", <<"Response(id=w)">>, <<>>)

get_llm_response_from_context(run) ==
    LET returned == {i \in 1..Len(run) : i <= 3 /\ run[i].kind # "raise"}
    IN  IF returned # {} THEN Call(run[Min(returned)]) ELSE DiagnosticOut

\* the API outcomes a call of the wrapper is run against, for a stage whose
\* generator outputs are S: the first attempt returns, the first raises and
\* the second returns, or all three raise
ApiRuns(S) ==
    LET texts == {o \in S : o.kind # "raise"}
    IN  {<<o>> : o \in texts}
            \cup {<<RaiseOut, o>> : o \in texts}
            \cup {<<RaiseOut, RaiseOut, RaiseOut>>}

\* what a generator call of a stage can yield to main
Outputs(S) ==
    Generated(IF generator = "shipped"
              THEN {get_llm_response_from_context(run) : run \in ApiRuns(S)}
              ELSE S)

\* the value a call returns to its caller
RetVal(o) == IF o.kind = "str" THEN JStr(Text(o)) ELSE JNull

\* json.loads(x) on a returned value; ok is FALSE where it raises
Loads(x) == IF IsStr(x) THEN json_loads(x[2]) ELSE [ok |-> FALSE, v |-> <<>>]

\* ------------------------------------------------- conversation_flow.main
Actions == {"update_prd", "gather", "summarize", "confirm_gate", "examples", "standards", "none"}

EmptyFacts == JObj(<< <<FACTS, JArr(<<>>)>> >>)

\* lines 155-156 with the results computed so far added to the error object
ErrorObject_partial(e) == [error |-> e, traceback |-> e, reply |-> reply]

\* lines 155-156: the except clause prints the error object
ErrorObject(e) == [error |-> e, traceback |-> e]

\* lines 155-156 with the turn going on to the planner after the error object
Fail_resume(e) ==
    /\ stdout' = Append(stdout, ErrorObject(e))
    /\ pc' = "plan"

\* lines 155-156 with the exception swallowed and nothing printed
Fail_silent(e) ==
    /\ stdout' = stdout
    /\ pc' = "done"

Fail(e) ==
    /\ stdout' = Append(stdout, ErrorObject(e))
    /\ pc' = "done"

\* lines 20-22
prompt == Field(req.prompt, JStr(<<>>))
conversation == Field(req.conversation, JArr(<<>>))
llm == Field(req.llm, JStr(<<"gpt-3.5-turbo">>))

\* line 24
structure == Field(req.structure, JObj(<<>>))

\* line 32: the reply request carries the conversation as it is
messages == <<conversation>>

CURSOR == <<"cursor">>
AGENDA == <<"agenda">>

\* lines 57-63 with the previous draft added to the fact-extraction request
extract_user_with_draft ==
    <<prompt, DictGet(structure, CURSOR, JObj(<<>>)), DictGet(structure, NEXTFOCUS, JObj(<<>>)),
      Field(req.prdDraft, JStr(<<>>))>>

\* lines 57-63: the values the fact-extraction request interpolates
extract_user ==
    <<prompt, DictGet(structure, CURSOR, JObj(<<>>)), DictGet(structure, NEXTFOCUS, JObj(<<>>))>>

\* line 26 with the default inverted: a request without shouldDraft drafts
should_draft_default_true == Truthy(Field(req.shouldDraft, JTrue))

\* line 26 as a test of presence: any shouldDraft in the request drafts
should_draft_when_present == req.shouldDraft # Absent

\* line 26
should_draft == Truthy(Field(req.shouldDraft, JFalse))

\* line 23
prev_prd_draft == Field(req.prdDraft, JStr(<<>>))

\* lines 27-29
temps == Field(req.temps, JObj(<<>>))
reply_temp == FloatOf(DictGet(temps, REPLY, JNum("0.7")))
\* line 29 with the default of line 28
draft_temp_reply_default == FloatOf(DictGet(temps, DRAFT, JNum("0.7")))
draft_temp == FloatOf(DictGet(temps, DRAFT, JNum("0.2")))

\* lines 10-15: the import fails, the script prints an error object and exits
T_ImportError ==
    /\ prog = "conversation_flow"
    /\ pc = "import"
    /\ ~importable
    /\ Fail("ImportError")
    /\ UNCHANGED <<heard, prog, generator, earlier, ct, li, calls, ef_vars, importable, req, reply, facts_raw, facts_repair,
                   facts_json, planner_raw, planner, prd_draft>>

\* lines 19-43: decode the request, then the reply call
T_Reply ==
    /\ prog = "conversation_flow"
    /\ pc = "import"
    /\ importable
    /\ IF req.stdin = "undecodable"
       THEN Fail("JSONDecodeError") /\ UNCHANGED <<calls, heard, reply>>
       ELSE IF req.stdin = "nondict" \/ ~IsDict(temps)
       THEN Fail("AttributeError") /\ UNCHANGED <<calls, heard, reply>>
       ELSE IF ~reply_temp.ok \/ ~draft_temp.ok
       THEN Fail("ValueError") /\ UNCHANGED <<calls, heard, reply>>
       ELSE \E o \in Outputs(ReplyOutputs) :
               /\ calls' = Append(calls, Message(Request("reply", reply_temp.x, FALSE, NoOut),
                                                  llm, messages))
               /\ heard' = Append(heard, o)
               /\ IF o.kind = "raise"
                  THEN Fail("GeneratorError") /\ reply' = reply
                  ELSE reply' = RetVal(o) /\ pc' = "facts" /\ stdout' = stdout
    /\ UNCHANGED <<prog, generator, earlier, ct, li, ef_vars, importable, req, facts_raw, facts_repair, facts_json,
                   planner_raw, planner, prd_draft>>

\* lines 74-75 without the test of "facts"
ShapeOk_dict_only(v) == IsDict(v)

\* lines 74-75 and 82-83: the decoded value is kept when it is an object whose
\* "facts" (an empty list when missing) is a list
ShapeOk(v) == IsDict(v) /\ IsList(DictGet(v, FACTS, JArr(<<>>)))

\* lines 47-76: the fact-extraction call and the decoding of its output
T_Facts ==
    /\ prog = "conversation_flow"
    /\ pc = "facts"
    /\ IF ~IsDict(structure)
       THEN Fail("AttributeError") /\ UNCHANGED <<calls, heard, facts_raw, facts_json>>
       ELSE \E o \in Outputs(TurnFactsOutputs) :
               /\ calls' = Append(calls, Message(Request("facts", "0.1", TRUE, NoOut),
                                                  llm, extract_user))
               /\ heard' = Append(heard, o)
               /\ IF o.kind = "raise"
                  THEN Fail("GeneratorError") /\ UNCHANGED <<facts_raw, facts_json>>
                  ELSE /\ facts_raw' = o
                       /\ stdout' = stdout
                       /\ LET parsed == Loads(RetVal(o))
                          IN  IF parsed.ok
                              THEN /\ facts_json' = IF ShapeOk(parsed.v) THEN parsed.v
                                                    ELSE EmptyFacts
                                   /\ pc' = "plan"
                              ELSE /\ facts_json' = EmptyFacts
                                   /\ pc' = "facts_repair"
    /\ UNCHANGED <<prog, generator, earlier, ct, li, ef_vars, importable, req, reply, facts_repair, planner_raw,
                   planner, prd_draft>>

\* lines 77-85: json.loads raised, so one repair call quoting facts_raw
T_FactsRepair ==
    /\ prog = "conversation_flow"
    /\ pc = "facts_repair"
    /\ \E o \in Outputs(TurnRepairOutputs) :
          /\ calls' = Append(calls, Message(Request("facts_repair", "0.0", FALSE, facts_raw),
                                             llm, <<RetVal(facts_raw)>>))
          /\ heard' = Append(heard, o)
          /\ IF o.kind = "raise"
             THEN Fail("GeneratorError") /\ UNCHANGED <<facts_repair, facts_json>>
             ELSE /\ facts_repair' = o
                  /\ stdout' = stdout
                  /\ pc' = "plan"
                  /\ LET parsed2 == Loads(RetVal(o))
                     IN  facts_json' = IF parsed2.ok /\ ShapeOk(parsed2.v) THEN parsed2.v
                                       ELSE EmptyFacts
    /\ UNCHANGED <<prog, generator, earlier, ct, li, ef_vars, importable, req, reply, facts_raw, planner_raw,
                   planner, prd_draft>>

\* line 97
nf == LET given == DictGet(structure, NEXTFOCUS, JObj(<<>>))
      IN  IF Truthy(given) THEN given ELSE JObj(<<>>)

\* lines 98-106: the values the planner request interpolates
plan_user ==
    <<prompt, DictGet(structure, AGENDA, JArr(<<>>)), DictGet(structure, CURSOR, JObj(<<>>)), nf>>

\* line 118 with nextFocus passed on as it is, without the defaults
FallbackPlanner_no_default ==
    JObj(<< <<<<"action">>, JStr(<<"gather">>)>>,
            <<<<"confidence">>, JNum("0.5")>>,
            <<<<"targets">>, JArr(<<nf>>)>>,
            <<FACTS, JArr(<<>>)>> >>)

\* line 118: the planner decision used when json.loads(planner_raw) raises
FallbackPlanner ==
    JObj(<< <<<<"action">>, JStr(<<"gather">>)>>,
            <<<<"confidence">>, JNum("0.5")>>,
            <<<<"targets">>,
              JArr(<< JObj(<< <<SECTION, DictGet(nf, SECTION, JNum("0"))>>,
                              <<FIELD, DictGet(nf, FIELD, JNum("0"))>> >>) >>)>>,
            <<FACTS, JArr(<<>>)>> >>)

\* lines 88-118: the planner call; its decoded output is the decision
T_Plan ==
    /\ prog = "conversation_flow"
    /\ pc = "plan"
    /\ \E o \in Outputs(PlannerOutputs) :
          /\ calls' = Append(calls, Message(Request("planner", "0.1", TRUE, NoOut),
                                             llm, plan_user))
          /\ heard' = Append(heard, o)
          /\ IF o.kind = "raise"
             THEN Fail("GeneratorError") /\ UNCHANGED <<planner_raw, planner>>
             ELSE /\ planner_raw' = o
                  /\ LET decoded == Loads(RetVal(o))
                     IN  IF decoded.ok
                         THEN planner' = decoded.v /\ pc' = "draft" /\ stdout' = stdout
                         ELSE IF IsDict(nf)
                         THEN planner' = FallbackPlanner /\ pc' = "draft" /\ stdout' = stdout
                         ELSE Fail("AttributeError") /\ planner' = planner
    /\ UNCHANGED <<prog, generator, earlier, ct, li, ef_vars, importable, req, reply, facts_raw, facts_repair,
                   facts_json, prd_draft>>

\* line 154 with the previous draft printed when the draft call returned nothing
Envelope_previous_draft(draft) ==
    [reply |-> reply,
     prdDraft |-> IF draft \in {JNull, JStr(<<>>)} THEN prev_prd_draft ELSE draft,
     planner |-> planner,
     facts |-> DictGet(facts_json, FACTS, JArr(<<>>))]

\* line 154: the success envelope
Envelope(draft) ==
    [reply |-> reply, prdDraft |-> draft, planner |-> planner,
     facts |-> DictGet(facts_json, FACTS, JArr(<<>>))]

\* lines 123, 130-132: the guidance reads nextFocus.get when nextFocus is truthy
nextFocus == DictGet(structure, NEXTFOCUS, JObj(<<>>))

\* line 125
focusStack == DictGet(structure, FOCUSSTACK, JArr(<<>>))

\* line 135 with the frame pushed first taken for the top
top_first == Items(focusStack)[1]

\* line 135: focusStack[-1]
top == Items(focusStack)[Len(Items(focusStack))]

\* lines 134-136 raise when a truthy focusStack is no list or its last
\* element is no object
FocusRaises == Truthy(focusStack) /\ (~IsList(focusStack) \/ ~IsDict(top))

\* lines 126-136: the guidance, one entry for each of agenda, nextFocus and
\* focusStack that is truthy, with the values the entry interpolates; a key
\* the top frame lacks is None
structure_lines ==
    (IF Truthy(DictGet(structure, AGENDA, JArr(<<>>)))
     THEN <<[line |-> "Agenda", args |-> <<DictGet(structure, AGENDA, JArr(<<>>))>>]>>
     ELSE <<>>)
    \o (IF Truthy(nextFocus)
        THEN <<[line |-> "Next focus index",
                args |-> <<DictGet(nextFocus, SECTION, JNum("0")),
                           DictGet(nextFocus, FIELD, JNum("0"))>>]>>
        ELSE <<>>)
    \o (IF Truthy(focusStack)
        THEN <<[line |-> "Active focus",
                args |-> <<DictGet(top, <<"type">>, JNull), DictGet(top, <<"topic">>, JNull),
                           DictGet(top, <<"turnsLeft">>, JNull)>>]>>
        ELSE <<>>)

\* lines 138-145 with the reply of this turn added to the draft request
prd_prompt_with_reply == <<structure_lines, prev_prd_draft, conversation, reply>>

\* lines 138-145: the values the draft request interpolates: the guidance,
\* the previous draft and the conversation
prd_prompt == <<structure_lines, prev_prd_draft, conversation>>

\* lines 120-154: compose the draft request, call the generator only when
\* should_draft, print the envelope
T_Draft ==
    /\ prog = "conversation_flow"
    /\ pc = "draft"
    /\ IF (Truthy(nextFocus) /\ ~IsDict(nextFocus)) \/ FocusRaises
       THEN Fail("AttributeError") /\ UNCHANGED <<calls, heard, prd_draft>>
       ELSE IF should_draft
       THEN \E o \in Outputs(DraftOutputs) :
               /\ calls' = Append(calls, Message(Request("draft", draft_temp.x, FALSE, NoOut),
                                                  llm, prd_prompt))
               /\ heard' = Append(heard, o)
               /\ IF o.kind = "raise"
                  THEN Fail("GeneratorError") /\ prd_draft' = prd_draft
                  ELSE /\ prd_draft' = RetVal(o)
                       /\ stdout' = Append(stdout, Envelope(RetVal(o)))
                       /\ pc' = "done"
       ELSE /\ prd_draft' = JNull
            /\ stdout' = Append(stdout, Envelope(JNull))
            /\ pc' = "done"
            /\ UNCHANGED <<calls, heard>>
    /\ UNCHANGED <<prog, generator, earlier, ct, li, ef_vars, importable, req, reply, facts_raw, facts_repair,
                   facts_json, planner_raw, planner>>

\* ------------- llm_interface.get_llm_response_from_context, attempt by attempt
\* lines 50-68: what attempt k sends besides model and input, for a caller
\* that gave response_format (rf) or did not; attempt 2 always omits it
AttemptKwargs_keep_format(k, rf) == [response_format |-> rf, temperature |-> k = 3]

AttemptKwargs(k, rf) ==
    [response_format |-> IF k = 2 THEN FALSE ELSE rf, temperature |-> k = 3]

LI0 == [pc |-> "idle", response_format |-> FALSE, attempts |-> <<>>, result |-> NoOut]

\* lines 52-70: one API attempt; the call returns at the first attempt that
\* does not raise, or with the diagnostic text when the third raises;
\* client.responses.create gives a response with output text, one with an
\* empty text, one without output_text, or an exception
W_Attempt ==
    /\ prog = "llm_interface"
    /\ li.pc = "attempt"
    /\ \E o \in {Str(<<>>, "none", <<"w">>, <<>>), Str(<<>>, "none", <<>>, <<>>), NoneOut, RaiseOut} :
          LET k == Len(li.attempts) + 1
              kw == AttemptKwargs(k, li.response_format)
              made == Append(li.attempts,
                             [response_format |-> kw.response_format,
                              temperature |-> kw.temperature, outcome |-> o])
          IN  li' = IF o.kind # "raise"
                    THEN [li EXCEPT !.attempts = made, !.result = Call(o), !.pc = "returned"]
                    ELSE IF k = 3
                    THEN [li EXCEPT !.attempts = made, !.result = DiagnosticOut,
                                    !.pc = "returned"]
                    ELSE [li EXCEPT !.attempts = made]
    /\ UNCHANGED <<prog, generator, calls, ef_vars, turn_vars, heard, earlier, ct>>

\* ------------------------------------------------------ code_transform.main
\* code_transform.py has its own copies of _strip_fences and
\* _extract_json_payload (lines 37-52), the same text as fact_extractor's.
PATH == <<"path">>
K_ACTION == <<"action">>
NEW_CONTENT == <<"new_content">>
MAXCHANGES == <<"maxChanges">>

DefaultMaxChanges == 50    \* line 62

\* int(v): ok is FALSE where it raises
IntOf(v) ==
    LET t == IF IsNum(v) THEN v[2]
             ELSE IF IsStr(v) /\ Len(v[2]) = 1 THEN v[2][1] ELSE "nan"
    IN  IF t = "0" THEN [ok |-> TRUE, n |-> 0]
        ELSE IF t = "1" THEN [ok |-> TRUE, n |-> 1]
        ELSE IF t = "2" THEN [ok |-> TRUE, n |-> 2]
        ELSE IF t = "50" THEN [ok |-> TRUE, n |-> DefaultMaxChanges]
        ELSE [ok |-> FALSE, n |-> 0]

\* str(v): a string as it is, a number as its digits, None otherwise
PyStr(v) == IF IsStr(v) THEN v[2] ELSE IF IsNum(v) THEN <<v[2]>> ELSE <<"None">>

\* s.lower(), token by token
Lower(ts) ==
    [i \in 1..Len(ts) |->
        IF ts[i] = "MODIFY" THEN "modify" ELSE IF ts[i] = "JSON" THEN "json" ELSE ts[i]]

\* lines 135 and 156 with rename let through
AllowedActions_with_rename == {<<"add">>, <<"modify">>, <<"delete">>, <<"rename">>}

\* lines 135 and 156
AllowedActions == {<<"add">>, <<"modify">>, <<"delete">>}

\* lines 133-134
pathv(ch) == Strip(PyStr(DictGet(ch, PATH, JStr(<<>>))))
action(ch) == Lower(Strip(PyStr(DictGet(ch, K_ACTION, JStr(<<>>)))))

\* lines 137-139 and 158-160: the object kept for a proposed change
ChangeObj(ch) ==
    JObj(<< <<PATH, JStr(pathv(ch))>>, <<K_ACTION, JStr(action(ch))>> >>
         \o (IF action(ch) \in {<<"add">>, <<"modify">>}
             THEN << <<NEW_CONTENT, DictGet(ch, NEW_CONTENT, JStr(<<>>))>> >>
             ELSE <<>>))

\* lines 132 and 153: parsed.get('changes') or []; ok is FALSE where the
\* lookup or the iteration raises
Proposed(parsed) ==
    IF ~IsDict(parsed) THEN [ok |-> FALSE, chs |-> <<>>]
    ELSE LET v == DictGet(parsed, <<"changes">>, JNull)
         IN  IF ~Truthy(v) THEN [ok |-> TRUE, chs |-> <<>>]
             ELSE IF IsList(v) THEN [ok |-> TRUE, chs |-> Items(v)]
             ELSE [ok |-> FALSE, chs |-> <<>>]

\* lines 132-142 and 153-161: the loop from element i on, with the changes
\* kept so far; the first loop stops once max_changes are kept, the second
\* has no such test; ok is FALSE where an element raises, and the changes
\* appended before it stay
RECURSIVE Collect(_, _, _, _, _)
Collect(chs, i, acc, bounded, limit) ==
    IF i > Len(chs) THEN [ok |-> TRUE, changes |-> acc]
    ELSE IF ~IsDict(chs[i]) THEN [ok |-> FALSE, changes |-> acc]
    ELSE IF pathv(chs[i]) = <<>> \/ action(chs[i]) \notin AllowedActions
         THEN Collect(chs, i + 1, acc, bounded, limit)
    ELSE LET more == Append(acc, ChangeObj(chs[i]))
         IN  IF bounded /\ Len(more) >= limit THEN [ok |-> TRUE, changes |-> more]
             ELSE Collect(chs, i + 1, more, bounded, limit)

\* lines 61-62
limits == IF Truthy(Field(ct.limits, JObj(<<>>))) THEN ct.limits ELSE JObj(<<>>)
max_changes == IntOf(DictGet(limits, MAXCHANGES, JNum("50")))

\* line 165
Output(changes, parsed) ==
    [changes |-> changes, notes |-> PyStr(DictGet(parsed, <<"notes">>, JStr(<<>>)))]

\* json.loads(_extract_json_payload(o)); ok is FALSE where it raises
Decode(o) ==
    IF o.kind = "str" THEN json_loads(extract_json_payload(Text(o)))
    ELSE [ok |-> FALSE, v |-> <<>>]

\* lines 130-166: normalise `parsed`; the output is printed when a change was
\* kept, the nudge follows when none was
CT_Normalize(c, parsed) ==
    LET prop == Proposed(parsed)
        got == IF prop.ok THEN Collect(prop.chs, 1, <<>>, TRUE, max_changes.n)
               ELSE [ok |-> FALSE, changes |-> <<>>]
    IN  IF ~got.ok
        THEN [c EXCEPT !.pc = "done", !.parsed = parsed,
                       !.out = <<ErrorObject("AttributeError")>>]
        ELSE IF got.changes = <<>>
        THEN [c EXCEPT !.pc = "nudge", !.parsed = parsed]
        ELSE [c EXCEPT !.pc = "done", !.parsed = parsed, !.changes = got.changes,
                       !.out = <<Output(got.changes, parsed)>>]

\* lines 117-119: decode raw; the repair follows when that raises
CT_AfterRaw(c, o) ==
    LET d == Decode(o)
    IN  IF d.ok THEN CT_Normalize([c EXCEPT !.raw = o], d.v)
        ELSE [c EXCEPT !.raw = o, !.pc = "repair"]

\* lines 151-166 with a nudge output that does not decode ending the run in
\* the error object
CT_Finish_strict(c, o) ==
    IF Decode(o).ok
    THEN LET all == Collect(Proposed(Decode(o).v).chs, 1, c.changes, FALSE, 0).changes
         IN  [c EXCEPT !.pc = "done", !.nraw = o, !.changes = all,
                       !.out = <<Output(all, c.parsed)>>]
    ELSE [c EXCEPT !.pc = "done", !.nraw = o, !.out = <<ErrorObject("JSONDecodeError")>>]

\* lines 151-166: the changes of the nudge output are appended, whatever
\* raises is passed over, and the output is printed
CT_Finish(c, o) ==
    LET d == Decode(o)
        prop == IF d.ok THEN Proposed(d.v) ELSE [ok |-> FALSE, chs |-> <<>>]
        all == Collect(prop.chs, 1, c.changes, FALSE, 0).changes
    IN  [c EXCEPT !.pc = "done", !.nraw = o, !.changes = all,
                  !.out = <<Output(all, c.parsed)>>]

CT_Error(e) == [ct EXCEPT !.pc = "done", !.out = <<ErrorObject(e)>>]

CT0 == [pc |-> "idle", limits |-> Absent, raw |-> NoOut, repaired |-> NoOut,
        nraw |-> NoOut, parsed |-> Absent, changes |-> <<>>, out |-> <<>>]

\* the limits a request carries
CTLimits ==
    { Absent,
      JObj(<< <<MAXCHANGES, JNum("0")>> >>),
      JObj(<< <<MAXCHANGES, JNum("1")>> >>),
      JObj(<< <<MAXCHANGES, JStr(<<"2">>)>> >>),
      JObj(<< <<MAXCHANGES, JStr(<<"w">>)>> >>) }

\* proposed changes as the generator writes them
ChangeText(path, act, content) ==
    <<"{">> \o Q("path") \o <<":", QUOTE>> \o path \o <<QUOTE, ",">>
        \o Q("action") \o <<":">> \o Q(act)
        \o (IF content THEN <<",">> \o Q("new_content") \o <<":">> \o Q("c") ELSE <<>>)
        \o <<"}">>

ChangeKinds ==
    { ChangeText(<<"a">>, "add", TRUE),
      ChangeText(<<"a">>, "delete", FALSE),
      ChangeText(<<BLANK, "b", BLANK>>, "MODIFY", FALSE),
      ChangeText(<<BLANK>>, "add", TRUE),            \* a blank path
      ChangeText(<<"a">>, "rename", TRUE),           \* an action outside the three
      ChangeText(<<"a">>, "delete", TRUE) }          \* a delete with new_content

ChangesText(elems) ==
    <<"{">> \o Q("changes") \o <<":", "[">> \o Join(elems) \o <<"]", ",">>
        \o Q("notes") \o <<":">> \o Q("n") \o <<"}">>

TransformOutputs ==
    { Str(<<>>, "none", ChangesText(es), <<>>) : es \in SeqsUpTo(ChangeKinds, MaxProposed) }
        \cup { Str(<<>>, "json", ChangesText(<<ChangeText(<<"a">>, "add", TRUE)>>), <<>>),
               Str(<<>>, "none", <<"{">> \o Q("notes") \o <<":">> \o Q("n") \o <<"}">>, <<>>),
               Str(<<>>, "none", ChangesText(<< <<"1">> >>), <<>>),
               Str(<<>>, "none", <<"[", "1", "]">>, <<>>),
               Str(<<>>, "none", <<"w">>, <<>>),
               NoneOut, RaiseOut }

CTRepairOutputs ==
    { Str(<<>>, "none", ChangesText(<<ChangeText(<<"a">>, "add", TRUE),
                                      ChangeText(<<"a">>, "delete", FALSE)>>), <<>>),
      Str(<<>>, "none", ChangesText(<<>>), <<>>),
      Str(<<>>, "none", <<"w">>, <<>>),
      RaiseOut }

NudgeOutputs ==
    { Str(<<>>, "none", ChangesText(<<ChangeText(<<"t">>, "add", TRUE)>>), <<>>),
      Str(<<>>, "none", ChangesText(<<ChangeText(<<"t">>, "add", TRUE),
                                      ChangeText(<<"a">>, "delete", TRUE)>>), <<>>),
      Str(<<>>, "none", ChangesText(<<ChangeText(<<"t">>, "add", TRUE), <<"1">>,
                                      ChangeText(<<"a">>, "add", TRUE)>>), <<>>),
      Str(<<>>, "none", ChangesText(<<ChangeText(<<"a">>, "rename", TRUE)>>), <<>>),
      Str(<<>>, "none", <<"w">>, <<>>),
      NoneOut, RaiseOut }

\* lines 56-108: read the request, then the first call, with response_format
CT_Transform ==
    /\ prog = "code_transform"
    /\ ct.pc = "start"
    /\ IF ~max_changes.ok
       THEN ct' = CT_Error("ValueError") /\ UNCHANGED <<calls, heard>>
       ELSE \E o \in Outputs(TransformOutputs) :
               /\ calls' = Append(calls, Request("transform", "0.1", TRUE, NoOut))
               /\ heard' = Append(heard, o)
               /\ ct' = IF o.kind \in {"raise", "none"} \/ o = DiagnosticOut
                        THEN [ct EXCEPT !.pc = "fallback"]
                        ELSE CT_AfterRaw(ct, o)
    /\ UNCHANGED <<prog, generator, ef_vars, turn_vars, earlier, li>>

\* lines 108-119: the same request again, without response_format
CT_Fallback ==
    /\ prog = "code_transform"
    /\ ct.pc = "fallback"
    /\ \E o \in Outputs(TransformOutputs) :
          /\ calls' = Append(calls, Request("transform_fallback", "0.1", FALSE, NoOut))
          /\ heard' = Append(heard, o)
          /\ ct' = IF o.kind = "raise" THEN CT_Error("GeneratorError")
                   ELSE CT_AfterRaw(ct, o)
    /\ UNCHANGED <<prog, generator, ef_vars, turn_vars, earlier, li>>

\* lines 120-128: the repair call quoting raw; its output must decode
CT_Repair ==
    /\ prog = "code_transform"
    /\ ct.pc = "repair"
    /\ \E o \in Outputs(CTRepairOutputs) :
          /\ calls' = Append(calls, Request("transform_repair", "0.0", FALSE, ct.raw))
          /\ heard' = Append(heard, o)
          /\ ct' = IF o.kind = "raise" THEN CT_Error("GeneratorError")
                   ELSE IF ~Decode(o).ok THEN CT_Error("JSONDecodeError")
                   ELSE CT_Normalize([ct EXCEPT !.repaired = o], Decode(o).v)
    /\ UNCHANGED <<prog, generator, ef_vars, turn_vars, earlier, li>>

\* lines 144-149: no change was kept, so the nudge call, with response_format
CT_Nudge ==
    /\ prog = "code_transform"
    /\ ct.pc = "nudge"
    /\ \E o \in Outputs(NudgeOutputs) :
          /\ calls' = Append(calls, Request("nudge", "0.1", TRUE, NoOut))
          /\ heard' = Append(heard, o)
          /\ ct' = IF o.kind = "raise" THEN [ct EXCEPT !.pc = "nudge_fallback"]
                   ELSE CT_Finish(ct, o)
    /\ UNCHANGED <<prog, generator, ef_vars, turn_vars, earlier, li>>

\* line 150: the nudge call again, without response_format
CT_NudgeFallback ==
    /\ prog = "code_transform"
    /\ ct.pc = "nudge_fallback"
    /\ \E o \in Outputs(NudgeOutputs) :
          /\ calls' = Append(calls, Request("nudge_fallback", "0.1", FALSE, NoOut))
          /\ heard' = Append(heard, o)
          /\ ct' = IF o.kind = "raise" THEN CT_Error("GeneratorError")
                   ELSE CT_Finish(ct, o)
    /\ UNCHANGED <<prog, generator, ef_vars, turn_vars, earlier, li>>

\* ------------------------------------------------------------ specification
vars == <<prog, generator, calls, ef_vars, turn_vars, heard, earlier, ct, li>>


IdleRequest == TurnRequest("dict", Absent, Absent, Absent, Absent)

Init ==
    /\ calls = <<>>
    /\ heard = <<>>
    \* no run was processed before this one
    /\ earlier = [on |-> FALSE, heard |-> <<>>, calls |-> <<>>, stdout |-> <<>>,
                  ef_pc |-> "primary", facts |-> <<>>, req |-> IdleRequest]
    /\ raw = NoOut
    /\ repaired = NoOut
    /\ facts = <<>>
    /\ ef_pc = "primary"
    /\ pc = "import"
    /\ reply = Absent
    /\ facts_raw = NoOut
    /\ facts_repair = NoOut
    /\ facts_json = Absent
    /\ planner_raw = NoOut
    /\ planner = Absent
    /\ prd_draft = Absent
    /\ stdout = <<>>
    /\ \/ /\ prog = "fact_extractor" /\ generator = "mock"
          /\ req = IdleRequest /\ importable = TRUE
          /\ ct = CT0 /\ li = LI0
       \/ /\ prog = "code_transform" /\ generator \in {"mock", "shipped"}
          /\ req = IdleRequest /\ importable = TRUE
          /\ ct \in {[CT0 EXCEPT !.pc = "start", !.limits = l] : l \in CTLimits}
          /\ li = LI0
       \/ /\ prog = "llm_interface" /\ generator = "shipped"
          /\ req = IdleRequest /\ importable = TRUE
          /\ ct = CT0
          /\ li \in {[LI0 EXCEPT !.pc = "attempt", !.response_format = rf] : rf \in BOOLEAN}
       \/ /\ prog = "conversation_flow" /\ generator \in {"mock", "shipped"}
          /\ req \in Requests /\ importable = TRUE
          /\ ct = CT0 /\ li = LI0
       \/ /\ prog = "conversation_flow" /\ generator = "mock"
          /\ req \in FocusRequests /\ importable = TRUE
          /\ ct = CT0 /\ li = LI0
       \/ /\ prog = "conversation_flow" /\ generator = "shipped"
          /\ req = IdleRequest /\ importable = FALSE
          /\ ct = CT0 /\ li = LI0

Next ==
    \/ EF_Primary
    \/ EF_Repair
    \/ T_ImportError
    \/ T_Reply
    \/ T_Facts
    \/ T_FactsRepair
    \/ T_Plan
    \/ T_Draft
    \/ W_Attempt
    \/ CT_Transform
    \/ CT_Fallback
    \/ CT_Repair
    \/ CT_Nudge
    \/ CT_NudgeFallback

Spec == Init /\ [][Next]_vars

\* ------------------------------------------------ one turn, run to its end
\* lines 158-159: the script is one call of main; its generator is the one
\* whose calls return any output or raise
InitMain == Init /\ prog = "conversation_flow" /\ (importable => generator = "mock")

\* lines 17-156: the statements of main
NextMain ==
    \/ T_ImportError
    \/ T_Reply
    \/ T_Facts
    \/ T_FactsRepair
    \/ T_Plan
    \/ T_Draft

\* main is straight-line code in one thread: when a statement has returned or
\* raised, the next one runs
SpecMain == InitMain /\ [][NextMain]_vars /\ WF_vars(NextMain)

\* ------------------------------------------------ one run after another
\* what a new run finds of the variables of the run before, had they outlived it
Carried_kept(v, init) == v

\* main runs once in a process of its own (lines 158-159) and its variables,
\* like those of extract_facts, are locals of one invocation: a new run
\* starts each from its initial value, whatever the run before left in it
Carried(v, init) == init

Trace == [on |-> TRUE, heard |-> heard, calls |-> calls, stdout |-> stdout,
          ef_pc |-> ef_pc, facts |-> facts, req |-> req]

\* the requests that differ from the one of this turn in prdDraft and in
\* structure.focusStack and in nothing else
Variants ==
    LET others == Items(req.structure)
        rest == SelectSeq(others, LAMBDA m : m[1] # FOCUSSTACK)
        stacks == {JObj(rest)}
                      \cup {JObj(Append(rest, <<FOCUSSTACK, Lookup(st, FOCUSSTACK)>>)) :
                               st \in FocusStructures}
    IN  {[req EXCEPT !.prdDraft = d, !.structure = st] :
             d \in {Absent, JStr(<<"D">>)}, st \in stacks} \ {req}

\* a second turn, its generator scripted with the outputs the first turn
\* got; its request is the same, or, after a turn without shouldDraft whose
\* structure is an object, one that differs in prdDraft and focusStack
T_NextTurn ==
    /\ prog = "conversation_flow"
    /\ pc = "done"
    /\ ~earlier.on
    /\ req' \in {req} \cup (IF importable /\ req.stdin = "dict" /\ ~should_draft
                                  /\ IsDict(req.structure)
                             THEN Variants ELSE {})
    /\ earlier' = Trace
    /\ heard' = <<>>
    /\ pc' = "import"
    /\ calls' = Carried(calls, <<>>)
    /\ stdout' = Carried(stdout, <<>>)
    /\ reply' = Carried(reply, Absent)
    /\ facts_raw' = Carried(facts_raw, NoOut)
    /\ facts_repair' = Carried(facts_repair, NoOut)
    /\ facts_json' = Carried(facts_json, Absent)
    /\ planner_raw' = Carried(planner_raw, NoOut)
    /\ planner' = Carried(planner, Absent)
    /\ prd_draft' = Carried(prd_draft, Absent)
    /\ UNCHANGED <<prog, generator, ef_vars, importable, ct, li>>

\* a second call of extract_facts with the same arguments in the same
\* process, its generator scripted with the outputs the first call got; the
\* calls followed by a second one are those whose outputs came without
\* commentary around them
EF_NextCall ==
    /\ prog = "fact_extractor"
    /\ ef_pc \in {"returned", "raised"}
    /\ ~earlier.on
    /\ \A k \in 1..Len(heard) : (heard[k].pre = <<>> /\ heard[k].post = <<>>)
    /\ earlier' = Trace
    /\ heard' = <<>>
    /\ ef_pc' = "primary"
    /\ calls' = Carried(calls, <<>>)
    /\ raw' = Carried(raw, NoOut)
    /\ repaired' = Carried(repaired, NoOut)
    /\ facts' = Carried(facts, <<>>)
    /\ UNCHANGED <<prog, generator, turn_vars, ct, li>>

NextTurns ==
    \/ Next
    \/ T_NextTurn
    \/ EF_NextCall

\* the turn requests of the runs that are followed by a second run
FollowedRequests ==
    { CompleteRequest,
      EmptyRequest,
      TurnRequest("dict", JStr(<<"D">>), JTrue, Absent, CustomTemps),
      TurnRequest("dict", JStr(<<"D">>), JTrue,
                  JObj(<< <<NEXTFOCUS, JObj(<< <<SECTION, JNum("1")>> >>)>> >>), Absent),
      TurnRequest("dict", Absent, JTrue, JObj(<< <<NEXTFOCUS, JStr(<<"w">>)>> >>), Absent),
      TurnRequest("dict", Absent, Absent, JArr(<<>>), Absent),
      TurnRequest("undecodable", Absent, Absent, Absent, Absent) }

InitTurns ==
    /\ Init
    /\ (prog = "conversation_flow" /\ importable) => req \in FollowedRequests

SpecTurns == InitTurns /\ [][NextTurns]_vars

\* ================================================================== claims
EnvelopeKeys == {"reply", "prdDraft", "planner", "facts"}
ErrorKeys == {"error", "traceback"}
IsEnvelope(o) == DOMAIN o = EnvelopeKeys
IsError(o) == DOMAIN o = ErrorKeys

\* the turn has ended in a success envelope
Success ==
    /\ prog = "conversation_flow"
    /\ pc = "done"
    /\ Len(stdout) = 1
    /\ IsEnvelope(stdout[1])

\* the request asks for no draft: shouldDraft is false or omitted
NoDraftAsked == req.shouldDraft \in {Absent, JFalse}

ActionInVocabulary(p) ==
    /\ IsDict(p)
    /\ HasKey(p, <<"action">>)
    /\ \E a \in Actions : Lookup(p, <<"action">>) = JStr(<<a>>)

\* C2: in every success envelope planner.action is one of the closed
\* vocabulary values, for any text the planner call returns
C2_ActionClosed ==
    Success => ActionInVocabulary(stdout[1].planner)

\* a decoded planner output that is a PlannerDecision: an object with the keys
\* action, confidence, targets, facts and an action of the vocabulary
Conforming(p) ==
    /\ ActionInVocabulary(p)
    /\ \A k \in {<<"confidence">>, <<"targets">>, FACTS} : HasKey(p, k)

\* C3: when the planner call returns parseable JSON that is non-conforming,
\* the envelope's planner is the deterministic fallback decision
C3_NonConformingReplaced ==
    (Success /\ Loads(RetVal(planner_raw)).ok
        /\ ~Conforming(Loads(RetVal(planner_raw)).v))
    => stdout[1].planner = FallbackPlanner

\* C4: the list extract_facts returns and the facts of every success
\* envelope hold at most 12 elements
C4_AtMostTwelveFacts ==
    /\ (prog = "fact_extractor" /\ ef_pc = "returned") => Len(facts) <= MaxFacts
    /\ Success => Len(Items(stdout[1].facts)) <= MaxFacts

\* the text is, as it stands, a JSON object whose "facts" is an array
ValidFactsText(s) ==
    LET p == json_loads(s)
    IN  /\ p.ok
        /\ IsDict(p.v)
        /\ HasKey(p.v, FACTS)
        /\ IsList(Lookup(p.v, FACTS))

\* the elements of that array, in order
FactsOfText(s) == Items(Lookup(json_loads(s).v, FACTS))

\* a returned output fails to parse or validate in extract_facts: it is not a
\* string, or its payload is not JSON, not an object, without "facts", or
\* with a "facts" that is not an array
FailsValidation(o) ==
    \/ o.kind = "none"
    \/ /\ o.kind = "str"
       /\ LET p == json_loads(extract_json_payload(Text(o)))
          IN  IF ~p.ok THEN TRUE
              ELSE IF ~IsDict(p.v) THEN TRUE
              ELSE IF ~HasKey(p.v, FACTS) THEN TRUE
              ELSE ~IsList(Lookup(p.v, FACTS))

\* C5: when the primary output fails to parse or validate and the repair
\* output is a valid JSON object whose "facts" is an array, extract_facts
\* returns exactly the repair output's array
C5_RepairedReturned ==
    (/\ prog = "fact_extractor"
     /\ FailsValidation(raw)
     /\ repaired.kind = "str"
     /\ ValidFactsText(Text(repaired)))
    => (ef_pc = "returned" /\ facts = FactsOfText(Text(repaired)))

\* C6: when the primary output and the repair output both fail to parse or
\* validate, extract_facts returns the empty list and raises nothing
C6_BothFailEmpty ==
    prog = "fact_extractor" =>
        \/ ef_pc = "returned" /\ facts = <<>>
        \/ ~FailsValidation(repaired)
        \/ ~FailsValidation(raw)

C6_Witness ==
    /\ prog = "fact_extractor"
    /\ ef_pc = "returned"
    /\ Len(calls) = 2
    /\ raw.kind = "str" /\ FailsValidation(raw)
    /\ repaired.kind = "str" /\ FailsValidation(repaired)
    /\ json_loads(Text(repaired)).ok

\* C7: a valid facts object inside a fenced block, with any commentary before
\* and after the block, yields the facts of the bare object, and no repair
\* call is issued
C7_FenceInvariance ==
    (/\ prog = "fact_extractor"
     /\ ef_pc # "primary"
     /\ raw.kind = "str"
     /\ raw.style # "none"
     /\ ValidFactsText(raw.body))
    => (ef_pc = "returned" /\ Len(calls) = 1 /\ facts = FactsOfText(raw.body))

\* C8: when the primary output is a valid JSON object whose "facts" is an
\* array, extract_facts returns exactly that array after one generator call
C8_ValidPrimaryReturned ==
    (/\ prog = "fact_extractor"
     /\ ef_pc # "primary"
     /\ raw.kind = "str"
     /\ ValidFactsText(Text(raw)))
    => (ef_pc = "returned" /\ Len(calls) = 1 /\ facts = FactsOfText(Text(raw)))

\* the number of requests issued for a stage
CountStage(st) == Cardinality({i \in 1..Len(calls) : calls[i].stage = st})

\* C9: each structured extraction issues one primary call and at most one
\* repair call: extract_facts, the orchestrator's fact step and its planner
\* step each issue at least 1 and at most 2 generator calls
C9_CallsPerExtraction ==
    /\ prog = "fact_extractor" =>
          /\ Len(calls) <= 2
          /\ CountStage("facts") <= 1
          /\ CountStage("facts_repair") <= CountStage("facts")
          /\ ef_pc # "primary" => CountStage("facts") = 1
    /\ prog = "conversation_flow" =>
          /\ CountStage("facts") <= 1
          /\ CountStage("facts_repair") <= CountStage("facts")
          /\ CountStage("planner") <= 1
          /\ (pc \in {"facts_repair", "plan", "draft"} \/ Success) => CountStage("facts") = 1
          /\ (pc = "draft" \/ Success) => CountStage("planner") = 1

C9_Witness ==
    /\ Success
    /\ CountStage("facts") = 1
    /\ CountStage("facts_repair") = 1
    /\ CountStage("planner") = 1

\* C10: a turn writes exactly one JSON object, a success envelope with the
\* keys reply, prdDraft, planner, facts or an error object with the keys
\* error, traceback; nothing is written before the turn ends and no envelope
\* accompanies an error object
C10_OneObject ==
    prog = "conversation_flow" =>
        /\ Len(stdout) <= 1
        /\ pc = "done" <=> Len(stdout) = 1
        /\ \A i \in 1..Len(stdout) : IsEnvelope(stdout[i]) \/ IsError(stdout[i])

C10_Witness ==
    /\ prog = "conversation_flow"
    /\ pc = "done"
    /\ Len(stdout) = 1
    /\ IsError(stdout[1])
    /\ planner # Absent
    /\ Len(calls) = 4

\* ---- failures of the stages of a turn ----

\* the turn has ended in an error object
ErrorOut ==
    /\ prog = "conversation_flow"
    /\ pc = "done"
    /\ Len(stdout) = 1
    /\ IsError(stdout[1])

\* the turn has ended and the last call issued was of stage st: every call
\* that returns is followed by another call or by the envelope
EndedAfter(st) ==
    /\ prog = "conversation_flow"
    /\ pc = "done"
    /\ Len(calls) >= 1
    /\ calls[Len(calls)].stage = st

\* the reply call failed: the generator raised, or the shipped generator used
\* up its three API attempts
ReplyStageFailed ==
    /\ prog = "conversation_flow"
    /\ CountStage("reply") = 1
    /\ \/ reply = Absent
       \/ generator = "shipped" /\ reply = RetVal(DiagnosticOut)

\* C11 as stated: a failure of the reply stage ends the turn at once with an
\* error object, no facts, planner or draft call issued and no envelope
C11_ReplyFailureFatal ==
    ReplyStageFailed => (ErrorOut /\ Len(calls) = 1)

\* a fact-extraction call, primary or repair, raised after the reply was made
FactsCallRaised ==
    /\ EndedAfter("facts") \/ EndedAfter("facts_repair")
    /\ reply # Absent
    /\ facts_json = Absent

\* C12 as stated: when the fact-extraction stage fails the turn still ends in
\* a success envelope, with facts the empty list and the reply intact
C12_FactsFailureTolerated ==
    FactsCallRaised =>
        /\ Success
        /\ stdout[1].facts = JArr(<<>>)
        /\ stdout[1].reply = reply

\* the planner call raised
PlannerCallRaised ==
    /\ EndedAfter("planner")
    /\ planner_raw.kind = "unset"

\* C13 as stated: when the planner stage fails the turn still ends in a
\* success envelope whose planner is the fallback decision
C13_PlannerFailureTolerated ==
    PlannerCallRaised =>
        /\ Success
        /\ stdout[1].planner = FallbackPlanner
        /\ stdout[1].reply = reply

\* the draft call raised
DraftCallRaised ==
    /\ EndedAfter("draft")
    /\ prd_draft = Absent

\* C14 as stated: when the draft stage fails the turn still ends in a success
\* envelope, with the request's prdDraft unchanged and reply, planner and
\* facts as computed
C14_DraftFailureTolerated ==
    DraftCallRaised =>
        /\ Success
        /\ stdout[1].prdDraft = prev_prd_draft
        /\ stdout[1].reply = reply
        /\ stdout[1].planner = planner

\* ---- the request ----

\* the request cannot be processed: it is not JSON, not an object, or its
\* structure or temps is given and is not an object, or a temperature given
\* is not a number
InvalidRequest ==
    \/ req.stdin # "dict"
    \/ req.structure # Absent /\ ~IsDict(req.structure)
    \/ req.temps # Absent /\ ~IsDict(req.temps)
    \/ req.temps = BadTemps

\* the request lacks one of the fields prompt, conversation, llm, prdDraft,
\* structure
LacksField ==
    /\ req.stdin = "dict"
    /\ Absent \in {req.prompt, req.conversation, req.llm, req.prdDraft, req.structure}

\* C15 as stated: a request that cannot be decoded as JSON or lacks prompt,
\* conversation, llm, prdDraft or structure ends in an error object
C15_LackingFieldFails ==
    (prog = "conversation_flow" /\ pc = "done" /\ (InvalidRequest \/ LacksField))
        => ErrorOut

\* C16 as stated: a turn that ends in an error object because its request is
\* invalid has issued no generator call
C16_InvalidRequestNoCalls ==
    (ErrorOut /\ InvalidRequest /\ stdout[1].error # "GeneratorError")
        => calls = <<>>

\* ---- defaults of the request ----

\* the request gives no temperature under key k
OmitsTemp(k) ==
    \/ req.temps = Absent
    \/ IsDict(req.temps) /\ ~HasKey(req.temps, k)

\* the generator is importable and the request is an object whose structure,
\* when given, is an object with nextFocus an object or absent and focusStack
\* a list of objects or absent, and whose temps, when given, holds numbers
WellFormedRequest ==
    /\ importable
    /\ req.stdin = "dict"
    /\ req.structure # Absent =>
          /\ IsDict(req.structure)
          /\ HasKey(req.structure, NEXTFOCUS) => IsDict(Lookup(req.structure, NEXTFOCUS))
          /\ HasKey(req.structure, FOCUSSTACK) =>
                /\ IsList(Lookup(req.structure, FOCUSSTACK))
                /\ \A k \in 1..Len(Items(Lookup(req.structure, FOCUSSTACK))) :
                      IsDict(Items(Lookup(req.structure, FOCUSSTACK))[k])
    /\ req.temps # Absent => (IsDict(req.temps) /\ req.temps # BadTemps)

\* a turn of a well-formed request that has ended did so in a success
\* envelope, unless a generator call raised
EndsWell ==
    pc = "done" => (Success \/ (ErrorOut /\ stdout[1].error = "GeneratorError"))

\* C17: a request without shouldDraft gets no draft call; a request without
\* temps, or without the key of temps, gets its reply call at temperature 0.7
\* and its draft call at temperature 0.2; the omission is no error: the turn
\* ends in a success envelope unless a generator call raised
C17_OmittedDefaults ==
    prog = "conversation_flow" =>
        /\ req.shouldDraft = Absent => CountStage("draft") = 0
        /\ \A i \in 1..Len(calls) :
              /\ (calls[i].stage = "reply" /\ OmitsTemp(REPLY)) => calls[i].temperature = "0.7"
              /\ (calls[i].stage = "draft" /\ OmitsTemp(DRAFT)) => calls[i].temperature = "0.2"
        /\ (WellFormedRequest /\ (req.shouldDraft = Absent \/ req.temps = Absent)) => EndsWell

C17_Witness ==
    /\ Success
    /\ req.temps = ReplyOnlyTemps
    /\ CountStage("draft") = 1
    /\ \E i \in 1..Len(calls) : calls[i].stage = "draft" /\ calls[i].temperature = "0.2"

\* C18: a turn whose request has shouldDraft false or omitted never issues a
\* draft call: every call is a reply, facts, facts repair or planner call
C18_NoDraftCall ==
    (prog = "conversation_flow" /\ NoDraftAsked) =>
        \A i \in 1..Len(calls) :
            calls[i].stage \in {"reply", "facts", "facts_repair", "planner"}

C18_Witness ==
    /\ Success
    /\ req.shouldDraft = JFalse
    /\ CountStage("facts_repair") = 1
    /\ Len(calls) = 4

\* ---- the shape of facts ----

\* C19: facts is always a list: extract_facts returns the empty list or the
\* array under "facts" of the primary or of the repair output, and the facts
\* of a success envelope is an array, empty when the output had none
C19_FactsIsList ==
    /\ (prog = "fact_extractor" /\ ef_pc = "returned") =>
          \/ facts = <<>>
          \/ /\ ~FailsValidation(raw)
             /\ facts = FactsOfText(extract_json_payload(Text(raw)))
          \/ /\ repaired.kind \in {"str", "none"}
             /\ ~FailsValidation(repaired)
             /\ facts = FactsOfText(extract_json_payload(Text(repaired)))
    /\ Success => IsList(stdout[1].facts)
    /\ (prog = "conversation_flow" /\ facts_json # Absent) =>
          (IsDict(facts_json) /\ IsList(DictGet(facts_json, FACTS, JArr(<<>>))))

C19_Witness ==
    /\ Success
    /\ facts_raw.kind = "str"
    /\ Loads(RetVal(facts_raw)).ok
    /\ CountStage("facts_repair") = 0
    /\ stdout[1].facts = JArr(<<>>)

\* ---- the planner fallback ----

\* the request's nextFocus, when its structure is an object that has one
GivenNextFocus ==
    IF req.structure # Absent /\ IsDict(req.structure) /\ HasKey(req.structure, NEXTFOCUS)
    THEN Lookup(req.structure, NEXTFOCUS)
    ELSE JObj(<<>>)

\* index k of the request's nextFocus, 0 when absent
FocusIndex(k) ==
    IF HasKey(GivenNextFocus, k) THEN Lookup(GivenNextFocus, k) ELSE JNum("0")

\* {action: "gather", confidence: 0.5, targets: [nextFocus], facts: []}
ExpectedFallback ==
    JObj(<< <<<<"action">>, JStr(<<"gather">>)>>,
            <<<<"confidence">>, JNum("0.5")>>,
            <<<<"targets">>,
              JArr(<< JObj(<< <<SECTION, FocusIndex(SECTION)>>,
                              <<FIELD, FocusIndex(FIELD)>> >>) >>)>>,
            <<FACTS, JArr(<<>>)>> >>)

\* the planner call returned an output that is not parseable as JSON
PlannerUnparseable ==
    /\ prog = "conversation_flow"
    /\ planner_raw.kind \in {"str", "none"}
    /\ ~Loads(RetVal(planner_raw)).ok

\* C20: when the planner output is not parseable as JSON, the planner decision
\* is exactly the fallback built from the request's nextFocus, each index 0
\* when absent, and the turn ends in a success envelope carrying it unless
\* the later draft call raised
C20_PlannerFallback ==
    (PlannerUnparseable /\ WellFormedRequest) =>
        /\ planner = ExpectedFallback
        /\ EndsWell
        /\ Success => stdout[1].planner = ExpectedFallback

C20_Witness ==
    /\ Success
    /\ PlannerUnparseable
    /\ HasKey(GivenNextFocus, SECTION)
    /\ ~HasKey(GivenNextFocus, FIELD)
    /\ stdout[1].planner = ExpectedFallback

\* ---- one run after another ----

\* the first n elements of s
Prefix(s, n) == SubSeq(s, 1, n)

\* the run has ended
RunEnded ==
    \/ prog = "conversation_flow" /\ pc = "done"
    \/ prog = "fact_extractor" /\ ef_pc \in {"returned", "raised"}

GivenStructure == Field(req.structure, JObj(<<>>))

\* the values a stage's request is built from, read off the turn request
FromRequest(st) ==
    LET focus == DictGet(GivenStructure, NEXTFOCUS, JObj(<<>>))
        agenda == DictGet(GivenStructure, AGENDA, JArr(<<>>))
        cursor == DictGet(GivenStructure, CURSOR, JObj(<<>>))
        stack == DictGet(GivenStructure, FOCUSSTACK, JArr(<<>>))
        frame == Items(stack)[Len(Items(stack))]
        lines ==
            (IF Truthy(agenda) THEN <<[line |-> "Agenda", args |-> <<agenda>>]>> ELSE <<>>)
            \o (IF Truthy(focus)
                THEN <<[line |-> "Next focus index",
                        args |-> <<DictGet(focus, SECTION, JNum("0")),
                                   DictGet(focus, FIELD, JNum("0"))>>]>>
                ELSE <<>>)
            \o (IF Truthy(stack)
                THEN <<[line |-> "Active focus",
                        args |-> <<DictGet(frame, <<"type">>, JNull),
                                   DictGet(frame, <<"topic">>, JNull),
                                   DictGet(frame, <<"turnsLeft">>, JNull)>>]>>
                ELSE <<>>)
        said == Field(req.prompt, JStr(<<>>))
        history == Field(req.conversation, JArr(<<>>))
    IN  IF st = "reply" THEN <<history>>
        ELSE IF st = "facts" THEN <<said, cursor, focus>>
        ELSE IF st = "planner"
             THEN <<said, agenda, cursor, IF Truthy(focus) THEN focus ELSE JObj(<<>>)>>
        ELSE <<lines, Field(req.prdDraft, JStr(<<>>)), history>>

\* C22: the reply, primary fact-extraction, planner and draft requests are
\* built from the turn request alone and quote no generator output; the draft
\* call is issued exactly when shouldDraft is true; each of reply and prdDraft
\* in the envelope is the output of its own call
C22_IndependentRequests ==
    prog = "conversation_flow" =>
        /\ \A i \in 1..Len(calls) :
              calls[i].stage \in {"reply", "facts", "planner", "draft"} =>
                  /\ calls[i].quoted = NoOut
                  /\ calls[i].model = Field(req.llm, JStr(<<"gpt-3.5-turbo">>))
                  /\ calls[i].content = FromRequest(calls[i].stage)
        /\ Success =>
              /\ CountStage("draft") = 1 <=> Truthy(Field(req.shouldDraft, JFalse))
              /\ stdout[1].reply = RetVal(heard[1])
              /\ CountStage("draft") = 1 => stdout[1].prdDraft = RetVal(heard[Len(heard)])

C22_Witness ==
    /\ Success
    /\ CountStage("draft") = 1
    /\ CountStage("facts_repair") = 1
    /\ req.structure # Absent
    /\ HasKey(req.structure, NEXTFOCUS)
    /\ stdout[1].reply # stdout[1].prdDraft

\* the place of a stage in the pipeline
StageRank(st) ==
    IF st = "reply" THEN 1
    ELSE IF st = "facts" THEN 2
    ELSE IF st = "facts_repair" THEN 3
    ELSE IF st = "planner" THEN 4
    ELSE 5

\* C23: the calls of a turn are issued in the order reply, fact extraction,
\* its repair, planner, draft, each stage after the one before it; the output
\* is written after the last of them; a stage that raises is the last stage
\* of the turn and the turn ends in an error object
C23_StageOrder ==
    prog = "conversation_flow" =>
        /\ Len(heard) = Len(calls)
        /\ \A i \in 1..Len(calls) :
              /\ i = 1 => calls[i].stage = "reply"
              /\ i > 1 =>
                    /\ StageRank(calls[i - 1].stage) < StageRank(calls[i].stage)
                    /\ calls[i].stage = "facts" => calls[i - 1].stage = "reply"
                    /\ calls[i].stage = "facts_repair" => calls[i - 1].stage = "facts"
                    /\ calls[i].stage = "planner" =>
                          calls[i - 1].stage \in {"facts", "facts_repair"}
                    /\ calls[i].stage = "draft" => calls[i - 1].stage = "planner"
        /\ stdout # <<>> => pc = "done"
        /\ Success =>
              /\ CountStage("reply") = 1
              /\ CountStage("facts") = 1
              /\ CountStage("planner") = 1
              /\ Truthy(Field(req.shouldDraft, JFalse)) => CountStage("draft") = 1
        /\ \A k \in 1..Len(heard) :
              heard[k].kind = "raise" => (k = Len(heard) /\ ErrorOut)

C23_Witness ==
    /\ ErrorOut
    /\ Len(calls) = 3
    /\ calls[3].stage = "facts_repair"
    /\ heard[3].kind = "raise"

\* ---- extract_facts and the fact step of main ----

\* what extract_facts returns for the outputs o1 of its first pass and o2 of
\* its repair attempt, and the number of calls it issues
ExtractFactsRun(o1, o2) ==
    IF PayloadFacts(o1).ok THEN [facts |-> PayloadFacts(o1).facts, n |-> 1]
    ELSE [facts |-> IF PayloadFacts(o2).ok THEN PayloadFacts(o2).facts ELSE <<>>, n |-> 2]

\* the fact step of main has run to its end
FactStepDone ==
    /\ prog = "conversation_flow"
    /\ pc \in {"plan", "draft"} \/ Success

\* C24 as stated: for the same generator outputs the fact step of main yields
\* the facts extract_facts returns and issues as many calls
C24_Mirrors ==
    FactStepDone =>
        LET ef == ExtractFactsRun(facts_raw, facts_repair)
        IN  /\ CountStage("facts") + CountStage("facts_repair") = ef.n
            /\ Items(DictGet(facts_json, FACTS, JArr(<<>>))) = ef.facts

\* ---- code_transform ----

\* code_transform has printed a success output
CTSuccess ==
    /\ prog = "code_transform"
    /\ ct.pc = "done"
    /\ Len(ct.out) = 1
    /\ DOMAIN ct.out[1] = {"changes", "notes"}

\* the changes the generator proposed in the decoded first (or repaired)
\* output and in the nudge output
ProposedChanges ==
    LET first == IF ct.parsed # Absent THEN Proposed(ct.parsed).chs ELSE <<>>
        nudge == IF Decode(ct.nraw).ok THEN Proposed(Decode(ct.nraw).v).chs ELSE <<>>
    IN  {first[i] : i \in 1..Len(first)} \cup {nudge[i] : i \in 1..Len(nudge)}

\* C25: every change of a success output has a non-empty path and an action
\* among add, modify, delete, carries new_content exactly when the action is
\* add or modify, and comes from a proposed change with that path and action
C25_ChangesWellFormed ==
    CTSuccess =>
        \A i \in 1..Len(ct.out[1].changes) :
            LET c == ct.out[1].changes[i]
            IN  /\ HasKey(c, PATH) /\ HasKey(c, K_ACTION)
                /\ IsStr(Lookup(c, PATH)) /\ Lookup(c, PATH) # JStr(<<>>)
                /\ Lookup(c, K_ACTION) \in {JStr(<<"add">>), JStr(<<"modify">>), JStr(<<"delete">>)}
                /\ HasKey(c, NEW_CONTENT)
                      <=> Lookup(c, K_ACTION) \in {JStr(<<"add">>), JStr(<<"modify">>)}
                /\ \E ch \in ProposedChanges :
                      /\ IsDict(ch)
                      /\ JStr(pathv(ch)) = Lookup(c, PATH)
                      /\ JStr(action(ch)) = Lookup(c, K_ACTION)

C25_Witness ==
    /\ CTSuccess
    /\ Len(calls) = 1
    /\ Len(Proposed(ct.parsed).chs) = 2
    /\ Len(ct.out[1].changes) = 1
    /\ Lookup(ct.out[1].changes[1], K_ACTION) = JStr(<<"delete">>)
    /\ \E ch \in ProposedChanges : action(ch) = <<"rename">>
    /\ \E ch \in ProposedChanges : action(ch) = <<"delete">> /\ HasKey(ch, NEW_CONTENT)

\* C26 as stated: a success output never holds more changes than
\* limits.maxChanges
C26_AtMostMaxChanges ==
    CTSuccess => Len(ct.out[1].changes) <= max_changes.n

\* ---- the generator wrapper ----

\* the outcomes of the attempts made so far
Outcomes == [k \in 1..Len(li.attempts) |-> li.attempts[k].outcome]

\* C27: the attempts are made one after another, each only after every
\* earlier one raised; the first is made with response_format when the caller
\* gave one and the second without; the call returns the text of the first
\* attempt that did not raise, and returns no sooner
C27_AttemptsInOrder ==
    prog = "llm_interface" =>
        /\ Len(li.attempts) <= 3
        /\ \A k \in 1..Len(li.attempts) :
              \A j \in 1..(k - 1) : li.attempts[j].outcome.kind = "raise"
        /\ Len(li.attempts) >= 1 => li.attempts[1].response_format = li.response_format
        /\ Len(li.attempts) >= 2 => ~li.attempts[2].response_format
        /\ li.pc = "returned" =>
              /\ li.attempts # <<>>
              /\ li.result = get_llm_response_from_context(Outcomes)
              /\ LET last == li.attempts[Len(li.attempts)].outcome
                 IN  IF last.kind = "raise"
                     THEN Len(li.attempts) = 3 /\ li.result = DiagnosticOut
                     ELSE li.result = Call(last)
        /\ (li.pc = "attempt" /\ li.attempts # <<>>) =>
              (Len(li.attempts) < 3 /\ li.attempts[Len(li.attempts)].outcome.kind = "raise")

C27_Witness ==
    /\ prog = "llm_interface"
    /\ li.pc = "returned"
    /\ li.response_format
    /\ Len(li.attempts) = 2
    /\ li.attempts[1].response_format
    /\ li.result = li.attempts[2].outcome

\* ---- repair calls ----

\* a decoded value is an object whose "facts" is an array
FactsShape(v) == IsDict(v) /\ HasKey(v, FACTS) /\ IsList(Lookup(v, FACTS))

\* C28 as stated: a primary fact-extraction output that parses as JSON but
\* fails validation is followed by exactly one repair call, in extract_facts
\* and in the fact step of main
C28_InvalidJsonRepaired ==
    /\ (prog = "fact_extractor" /\ ef_pc = "returned" /\ raw.kind = "str"
           /\ json_loads(extract_json_payload(Text(raw))).ok
           /\ ~FactsShape(json_loads(extract_json_payload(Text(raw))).v))
          => CountStage("facts_repair") = 1
    /\ (FactStepDone /\ Loads(RetVal(facts_raw)).ok
           /\ ~FactsShape(Loads(RetVal(facts_raw)).v))
          => CountStage("facts_repair") = 1

\* the planner output does not parse or is not a conforming decision
PlannerInvalid ==
    /\ prog = "conversation_flow"
    /\ planner_raw.kind \in {"str", "none"}
    /\ ~Loads(RetVal(planner_raw)).ok \/ ~Conforming(Loads(RetVal(planner_raw)).v)

\* C29 as stated: an invalid planner output is followed by one repair call at
\* temperature 0 that carries the planner request
C29_PlannerRepaired ==
    (PlannerInvalid /\ (pc = "draft" \/ Success)) =>
        \E i \in 2..Len(calls) :
            /\ calls[i - 1].stage = "planner"
            /\ calls[i].stage = "planner_repair"
            /\ calls[i].temperature = "0.0"

\* C30: every repair call of extract_facts and of main's fact step is made at
\* temperature 0, right after the primary call, whose output was returned and
\* found invalid
C30_RepairAfterPrimary ==
    prog \in {"fact_extractor", "conversation_flow"} =>
        \A i \in 1..Len(calls) :
            calls[i].stage = "facts_repair" =>
                /\ calls[i].temperature = "0.0"
                /\ i > 1
                /\ calls[i - 1].stage = "facts"
                /\ heard[i - 1].kind # "raise"
                /\ IF prog = "fact_extractor" THEN FailsValidation(heard[i - 1])
                   ELSE ~Loads(RetVal(heard[i - 1])).ok

C30_Witness ==
    /\ prog = "fact_extractor"
    /\ ef_pc = "returned"
    /\ CountStage("facts_repair") = 1
    /\ raw.kind = "str"
    /\ json_loads(extract_json_payload(Text(raw))).ok
    /\ facts # <<>>

\* ---- what the repair request carries ----

\* C31 as stated: every fact-extraction repair request quotes the output its
\* primary call returned, in extract_facts and in the fact step of main, so
\* that runs with different primary outputs send different repair requests
C31_RepairQuotesPrimary ==
    prog \in {"fact_extractor", "conversation_flow"} =>
        \A i \in 2..Len(calls) :
            calls[i].stage = "facts_repair" => calls[i].quoted = heard[i - 1]

\* ---- the draft ----

\* the draft temperature the request asks for, 0.2 when it names none
AskedDraftTemp ==
    LET given == Field(req.temps, JObj(<<>>))
    IN  IF IsDict(given) /\ HasKey(given, DRAFT) THEN FloatOf(Lookup(given, DRAFT)).x
        ELSE "0.2"

\* C32: a turn issues at most one draft call, only when shouldDraft is true
\* and at the draft temperature of the request; a successful turn with
\* shouldDraft true issued exactly one, as its last call, and its envelope
\* carries the value that call returned as it is, an empty text included
C32_DraftVerbatim ==
    prog = "conversation_flow" =>
        /\ CountStage("draft") <= 1
        /\ \A i \in 1..Len(calls) :
              calls[i].stage = "draft" =>
                  /\ Truthy(Field(req.shouldDraft, JFalse))
                  /\ calls[i].temperature = AskedDraftTemp
                  /\ i = Len(calls)
        /\ (Success /\ Truthy(Field(req.shouldDraft, JFalse))) =>
              /\ CountStage("draft") = 1
              /\ stdout[1].prdDraft = RetVal(heard[Len(heard)])
              /\ prd_draft = stdout[1].prdDraft

C32_Witness ==
    /\ Success
    /\ CountStage("draft") = 1
    /\ calls[Len(calls)].temperature = "0.5"
    /\ heard[Len(heard)].kind = "str"
    /\ stdout[1].prdDraft = JStr(<<>>)
    /\ req.prdDraft = JStr(<<"D">>)

\* ---- the generator wrapper, its attempts and its failure ----

\* the text every diagnostic of the wrapper begins with
DiagnosticHead ==
    <<"An", BLANK, "error", BLANK, "occurred", BLANK, "while", BLANK, "calling", BLANK,
      "the", BLANK, "OpenAI", BLANK, "API">>

\* C34: a call of the wrapper makes at most three API attempts: the first
\* with response_format (when given) and no temperature, the second with
\* neither, the third with temperature and response_format; it returns a
\* text whatever the API does, and when all three attempts raised that text
\* begins with the diagnostic head
C34_ThreeAttemptsNoRaise ==
    prog = "llm_interface" =>
        /\ Len(li.attempts) <= 3
        /\ \A k \in 1..Len(li.attempts) :
              /\ li.attempts[k].temperature = (k = 3)
              /\ li.attempts[k].response_format = (li.response_format /\ k # 2)
        /\ li.pc = "returned" =>
              /\ li.result.kind = "str"
              /\ (\A k \in 1..Len(li.attempts) : li.attempts[k].outcome.kind = "raise") =>
                    /\ Len(li.attempts) = 3
                    /\ Len(Text(li.result)) > Len(DiagnosticHead)
                    /\ SubSeq(Text(li.result), 1, Len(DiagnosticHead)) = DiagnosticHead

C34_Witness ==
    /\ prog = "llm_interface"
    /\ li.pc = "returned"
    /\ li.response_format
    /\ Len(li.attempts) = 3
    /\ li.attempts[3].outcome.kind = "raise"
    /\ li.attempts[3].temperature
    /\ li.result.kind = "str"

\* ---- code_transform: repair and nudge ----

\* the positions of the calls of a stage
CallsOf(st) == {i \in 1..Len(calls) : calls[i].stage = st}

GivenStack == Items(DictGet(GivenStructure, FOCUSSTACK, JArr(<<>>)))

\* the active-focus entries among the guidance lines of a draft request
ActiveFocus(lines) == SelectSeq(lines, LAMBDA e : e.line = "Active focus")

\* C33: the guidance of a draft request has an active-focus entry exactly
\* when the focus stack of the request is non-empty, and only one; the entry
\* reports the type, topic and turnsLeft of the last frame of the stack, and
\* nothing of a frame below it
C33_ActiveFocusIsTop ==
    prog = "conversation_flow" =>
        \A i \in 1..Len(calls) :
            calls[i].stage = "draft" =>
                LET entries == ActiveFocus(calls[i].content[1])
                    frame == GivenStack[Len(GivenStack)]
                IN  /\ Len(entries) = (IF GivenStack # <<>> THEN 1 ELSE 0)
                    /\ GivenStack # <<>> =>
                          /\ entries[1].args[1] = DictGet(frame, <<"type">>, JNull)
                          /\ entries[1].args[2] = DictGet(frame, <<"topic">>, JNull)
                          /\ entries[1].args[3] = DictGet(frame, <<"turnsLeft">>, JNull)
                          /\ \A k \in 1..(Len(GivenStack) - 1) :
                                GivenStack[k] # frame =>
                                    entries[1].args[1] # DictGet(GivenStack[k], <<"type">>, JNull)

C33_Witness ==
    /\ Success
    /\ CountStage("draft") = 1
    /\ Len(GivenStack) = 2
    /\ ActiveFocus(calls[Len(calls)].content[1])
          = <<[line |-> "Active focus", args |-> <<JStr(<<"t2">>), JStr(<<"b">>), JNull>>]>>

\* ---- what a turn without shouldDraft does not read ----

\* the focus stack of a request, when it gives one, is a list of objects
StackWellFormed(r) ==
    (IsDict(r.structure) /\ HasKey(r.structure, FOCUSSTACK)) =>
        LET given == Lookup(r.structure, FOCUSSTACK)
        IN  IsList(given) /\ \A k \in 1..Len(Items(given)) : IsDict(Items(given)[k])

\* this turn follows one whose request had no shouldDraft either and differed
\* in prdDraft or focusStack, both focus stacks being lists of objects
OtherDraftOrFocus ==
    /\ prog = "conversation_flow"
    /\ earlier.on
    /\ earlier.req # req
    /\ StackWellFormed(req)
    /\ StackWellFormed(earlier.req)

C36_TurnEnds ==
    <>(/\ pc = "done"
       /\ Len(stdout) = 1
       /\ Len(calls) <= 5)

C36_Witness ==
    /\ pc = "done"
    /\ Success
    /\ Len(calls) = 5
    /\ [k \in 1..5 |-> calls[k].stage]
           = <<"reply", "facts", "facts_repair", "planner", "draft">>

====
